---------------------------- MODULE Spec2Model ----------------------------
(***************************************************************************)
(* Model of benchmark_tool/generator.py: the text-to-code sanitisation     *)
(* pipeline of CodeGenerator.generate and its helper _strip_trailing_prose.*)
(*                                                                         *)
(* A Python string is a sequence of tokens.  A token is one of             *)
(*   " "          one whitespace character other than the newline          *)
(*   "\n"         the newline                                              *)
(*   "#"          the comment character                                    *)
(*   "\"\"\""     the triple-quote docstring delimiter                     *)
(*   "def ", "import ", "from "   the code-start prefixes                  *)
(*   FencePython, Fence           the markdown fence markers (three        *)
(*                                backquotes, with and without "python")   *)
(*   "x"          any other run of non-blank text                          *)
(* ast.parse is the external syntax oracle: its outcome on a candidate is  *)
(* chosen nondeterministically among "valid" (returns), "SyntaxError" and  *)
(* "OtherError" (any exception that is not a SyntaxError, e.g. MemoryError *)
(* or RecursionError).                                                     *)
(***************************************************************************)
EXTENDS Integers, Sequences, FiniteSets, TLC

\* ------------------------------------------------------------------ bounds
\* longest input, in lines, handed to _strip_trailing_prose on its own
MaxCodeLines == 4
\* longest text, in lines, handed to the comment filter of generate
MaxFilterLines == 4
\* longest model output, in lines, of the single generate call
MaxRawLines == 4
\* how many generate calls run interleaved on one CodeGenerator
NumCalls == 2
\* the last reading of time.time() the model reaches
MaxTime == 1

\* ----------------------------------------------------------- Python strings
NL == "\n"
Whitespace == {" ", NL}
DocstringDelim == "\"\"\""
FencePython == "<fence>python"
Fence == "<fence>"
CodeStartTokens == {"import ", "from ", "def "}
\* Python's None, where a string is expected: no text holds this token
None == <<"None">>

RECURSIVE LStrip(_)
LStrip(s) ==
    IF s # <<>> /\ Head(s) \in Whitespace THEN LStrip(Tail(s)) ELSE s

RECURSIVE RStrip(_)
RStrip(s) ==
    IF s # <<>> /\ s[Len(s)] \in Whitespace
    THEN RStrip(SubSeq(s, 1, Len(s) - 1))
    ELSE s

\* str.strip()
Strip(s) == RStrip(LStrip(s))

\* str.split('\n'): the pieces between newlines; always at least one piece
RECURSIVE SplitNewline(_)
SplitNewline(s) ==
    IF \E k \in 1..Len(s) : s[k] = NL
    THEN LET k == CHOOSE j \in 1..Len(s) :
                      s[j] = NL /\ \A h \in 1..(j - 1) : s[h] # NL
         IN  <<SubSeq(s, 1, k - 1)>> \o SplitNewline(SubSeq(s, k + 1, Len(s)))
    ELSE <<s>>

\* str.splitlines(): as split('\n'), but '' has no lines and a final newline
\* opens no further line
SplitLines(s) ==
    IF s = <<>> THEN <<>>
    ELSE LET p == SplitNewline(s)
         IN  IF p[Len(p)] = <<>> THEN SubSeq(p, 1, Len(p) - 1) ELSE p

\* '\n'.join(lines)
RECURSIVE Join(_)
Join(ls) ==
    IF ls = <<>> THEN <<>>
    ELSE IF Len(ls) = 1 THEN ls[1]
    ELSE ls[1] \o <<NL>> \o Join(Tail(ls))

\* str.startswith(tok), str.endswith(tok), str.startswith((tok, ...))
StartsWith(s, tok) == s # <<>> /\ s[1] = tok
EndsWith(s, tok) == s # <<>> /\ s[Len(s)] = tok
StartsWithAny(s, toks) == \E t \in toks : StartsWith(s, t)

\* str.replace(tok, '')
Remove(s, tok) == SelectSeq(s, LAMBDA c : c # tok)

\* every text of at most n lines drawn from the line set ls
Texts(ls, n) == {Join(f) : f \in UNION {[1..k -> ls] : k \in 0..n}}

\* ------------------------------------------------------------------- state
VARIABLES
    \* CodeGenerator.generate, one call
    raw,            \* what self.chain.invoke returned
    result,         \* the local result, rewritten by every stage
    flines,         \* lines = result.split('\n') of the comment filter
    idx,            \* how many of flines the filter loop has processed
    in_docstring,   \* the filter's toggle: TRUE is Inside
    cleaned_lines,  \* the lines the filter retained
    \* _strip_trailing_prose
    code,         \* the argument
    slines,       \* lines = code.splitlines()
    start_idx,    \* index of the first code-start line, 0 when there is none
    i,            \* the end index of the scan loop (0-based, as in the code)
    best_code,    \* the last candidate ast.parse accepted, initially code
    accepted,     \* the end indices whose candidate ast.parse accepted
    ret_prose,    \* the value returned, None before the return
    parses,       \* ast.parse on one text: [text, ok]; it is a function
    pc,           \* position in the code
    \* interleaved generate calls on one CodeGenerator, each call its locals
    gpc,             \* position of each call
    description,     \* the argument of each call
    start_time,      \* local start_time, -1 while unset
    end_time,        \* local end_time, -1 while unset
    chain_result,    \* what self.chain.invoke returned to the call (or raised)
    gresult,         \* the call's local result after the pipeline
    returned,        \* the pair the call returned
    generation_time, \* self.generation_time, the one field all calls share
    invoked,         \* the calls that reached self.chain.invoke
    now              \* time.time()

genVars == <<raw, result, flines, idx, in_docstring, cleaned_lines>>
scanVars == <<code, slines, start_idx, i, best_code, accepted, ret_prose>>
callVars == <<gpc, description, start_time, end_time, chain_result, gresult,
              returned, generation_time, invoked, now>>
oneVars == <<genVars, scanVars, parses, pc>>
vars == <<oneVars, callVars>>

\* ------------------------------------------------- _strip_trailing_prose
Outcomes == {"valid", "SyntaxError", "OtherError"}

\* what ast.parse may do on a candidate: anything, except that it is a
\* function, so its outcome on the text recorded in parses is fixed
ast_parse(candidate) ==
    IF candidate = parses.text
    THEN IF parses.ok THEN {"valid"} ELSE Outcomes \ {"valid"}
    ELSE Outcomes

\* lines 19-22: index of the first code-start line, 0 when there is none
IsCodeStart(line) == StartsWithAny(Strip(line), CodeStartTokens)

FirstCodeStart(ls) ==
    IF \E k \in 1..Len(ls) : IsCodeStart(ls[k])
    THEN (CHOOSE k \in 1..Len(ls) :
              IsCodeStart(ls[k]) /\ \A h \in 1..(k - 1) : ~IsCodeStart(ls[h])) - 1
    ELSE 0

\* a slip of line 27: the candidate taken from the first line of the text
CandidateFromTop(ls, start, end) == Join(SubSeq(ls, 1, end + 1))

\* line 27: '\n'.join(lines[start_idx:i+1])
Candidate(ls, start, end) == Join(SubSeq(ls, start + 1, end + 1))

\* a slip of lines 28-32: best_code assigned before ast.parse is called, so
\* that a rejected candidate is kept too
AssignedBeforeParse(best, candidate, outcome) == candidate

\* lines 28-32: the candidate replaces best_code exactly when it parses
NextBest(best, candidate, outcome) ==
    IF outcome = "valid" THEN candidate ELSE best

\* lines 14-25
ScanBegin ==
    /\ pc = "S14"
    /\ slines' = SplitLines(code)
    /\ start_idx' = FirstCodeStart(slines')
    /\ best_code' = code
    /\ i' = start_idx'
    /\ pc' = "S26"
    /\ UNCHANGED <<genVars, code, accepted, ret_prose, parses, callVars>>

\* lines 26-32: one iteration of the scan loop
ScanIterate ==
    /\ pc = "S26"
    /\ i < Len(slines)
    /\ \E outcome \in ast_parse(Candidate(slines, start_idx, i)) :
          /\ best_code' = NextBest(best_code, Candidate(slines, start_idx, i), outcome)
          /\ accepted' = IF outcome = "valid" THEN accepted \cup {i} ELSE accepted
          /\ pc' = IF outcome = "OtherError" THEN "raised" ELSE "S26"
    /\ i' = i + 1
    /\ UNCHANGED <<genVars, code, slines, start_idx, ret_prose, parses, callVars>>

\* line 34
ScanReturn ==
    /\ pc = "S26"
    /\ i >= Len(slines)
    /\ ret_prose' = Strip(best_code)
    /\ pc' = "S_returned"
    /\ UNCHANGED <<genVars, code, slines, start_idx, i, best_code, accepted, parses,
                   callVars>>

\* ------------------------------------------------ CodeGenerator.generate
\* line 133: result.strip(), then both fence markers replaced by ''
FenceStage(s) == Remove(Remove(Strip(s), FencePython), Fence)

\* lines 136-143: the lines from the first code-start line on; none of them
\* when no line is a code-start line (started_code stays False)
CodeLines(ls) ==
    IF \E k \in 1..Len(ls) : IsCodeStart(ls[k])
    THEN LET k == CHOOSE j \in 1..Len(ls) :
                      IsCodeStart(ls[j]) /\ \A h \in 1..(j - 1) : ~IsCodeStart(ls[h])
         IN  SubSeq(ls, k, Len(ls))
    ELSE <<>>

\* lines 136-145
NarrativeStage(s) == Strip(Join(CodeLines(SplitLines(s))))

\* a slip of line 157: only a line that starts with the delimiter toggles
QualifiesAtStartOnly(line) == StartsWith(Strip(line), DocstringDelim)

\* line 157: the line toggles the docstring state
Qualifies(line) ==
    \/ StartsWith(Strip(line), DocstringDelim)
    \/ EndsWith(Strip(line), DocstringDelim)

\* a slip of line 163: blank lines dropped inside a docstring too
RetainedNonBlank(inside, line) ==
    \/ Qualifies(line)
    \/ (inside /\ Strip(line) # <<>>)
    \/ (~StartsWith(Strip(line), "#") /\ Strip(line) # <<>>)

\* lines 157-164: whether the line is appended to cleaned_lines, given the
\* state the loop is in when it reaches the line
Retained(inside, line) ==
    \/ Qualifies(line)
    \/ inside
    \/ (~StartsWith(Strip(line), "#") /\ Strip(line) # <<>>)

\* lines 157-158: the state after the line
Toggle(inside, line) == IF Qualifies(line) THEN ~inside ELSE inside

\* line 133
StripFences ==
    /\ pc = "L133"
    /\ result' = FenceStage(result)
    /\ pc' = "L136"
    /\ UNCHANGED <<raw, flines, idx, in_docstring, cleaned_lines, scanVars, parses, callVars>>

\* lines 136-145
StripNarrative ==
    /\ pc = "L136"
    /\ result' = NarrativeStage(result)
    /\ pc' = "L148"
    /\ UNCHANGED <<raw, flines, idx, in_docstring, cleaned_lines, scanVars, parses, callVars>>

\* lines 148-151
FilterBegin ==
    /\ pc = "L148"
    /\ flines' = SplitNewline(result)
    /\ cleaned_lines' = <<>>
    /\ in_docstring' = FALSE
    /\ idx' = 0
    /\ pc' = "L153"
    /\ UNCHANGED <<raw, result, scanVars, parses, callVars>>

\* lines 153-164: one iteration of the filter loop
FilterLine ==
    /\ pc = "L153"
    /\ idx < Len(flines)
    /\ LET line == flines[idx + 1]
       IN  /\ in_docstring' = Toggle(in_docstring, line)
           /\ cleaned_lines' = IF Retained(in_docstring, line)
                               THEN Append(cleaned_lines, line)
                               ELSE cleaned_lines
    /\ idx' = idx + 1
    /\ UNCHANGED <<raw, result, flines, scanVars, parses, pc, callVars>>

\* line 166
FilterEnd ==
    /\ pc = "L153"
    /\ idx >= Len(flines)
    /\ result' = Strip(Join(cleaned_lines))
    /\ pc' = "L168"
    /\ UNCHANGED <<raw, flines, idx, in_docstring, cleaned_lines, scanVars, parses, callVars>>

\* line 168: the call of _strip_trailing_prose(result)
CallScan ==
    /\ pc = "L168"
    /\ code' = result
    /\ pc' = "S14"
    /\ UNCHANGED <<genVars, slines, start_idx, i, best_code, accepted, ret_prose, parses,
                   callVars>>

\* lines 168-171: the assignment of the helper's value, and the return
GenReturn ==
    /\ pc = "S_returned"
    /\ raw # None
    /\ result' = ret_prose
    /\ pc' = "L171"
    /\ UNCHANGED <<raw, flines, idx, in_docstring, cleaned_lines, scanVars, parses, callVars>>

\* --------------------------- generate calls interleaved on one generator
Calls == 1..NumCalls

\* what the model may answer: code with a trailing sentence, or prose only
ChainOutputs == {<<"def ", "x", NL, "x">>, <<"x">>}
ChainError == <<"ChainError">>
Raised == <<"raised">>
NotReturned == [code |-> None, time |-> -1]

\* lines 148-166 as one function of the text
RECURSIVE FilterFrom(_, _, _, _)
FilterFrom(ls, k, inside, cleaned) ==
    IF k >= Len(ls) THEN cleaned
    ELSE FilterFrom(ls, k + 1, Toggle(inside, ls[k + 1]),
                    IF Retained(inside, ls[k + 1])
                    THEN Append(cleaned, ls[k + 1]) ELSE cleaned)

FilterStage(s) == Strip(Join(FilterFrom(SplitNewline(s), 0, FALSE, <<>>)))

\* lines 26-34 as a function of the text: every value the scan may return,
\* and Raised when ast.parse raises what line 31 does not catch
RECURSIVE ScanFrom(_, _, _, _)
ScanFrom(ls, start, end, best) ==
    IF end >= Len(ls) THEN {Strip(best)}
    ELSE UNION {IF outcome = "OtherError"
                THEN {Raised}
                ELSE ScanFrom(ls, start, end + 1,
                              NextBest(best, Candidate(ls, start, end), outcome))
                : outcome \in ast_parse(Candidate(ls, start, end))}

\* lines 9-34
StripTrailingProse(s) ==
    ScanFrom(SplitLines(s), FirstCodeStart(SplitLines(s)),
             FirstCodeStart(SplitLines(s)), s)

\* lines 133-168
Sanitized(s) == StripTrailingProse(FilterStage(NarrativeStage(FenceStage(s))))

\* a slip of line 116: the description tested without strip()
IsEmptyUnstripped(d) == d = <<>>

\* line 116: not description.strip()
IsEmpty(d) == Strip(d) = <<>>

\* lines 116-119
Validate(p) ==
    /\ gpc[p] = "L116"
    /\ gpc' = [gpc EXCEPT ![p] = IF IsEmpty(description[p]) THEN "ValueError" ELSE "L121"]
    /\ UNCHANGED oneVars
    /\ UNCHANGED <<description, start_time, end_time, chain_result, gresult,
                   returned, generation_time, invoked, now>>

\* line 121
StartClock(p) ==
    /\ gpc[p] = "L121"
    /\ start_time' = [start_time EXCEPT ![p] = now]
    /\ gpc' = [gpc EXCEPT ![p] = "L123"]
    /\ UNCHANGED oneVars
    /\ UNCHANGED <<description, end_time, chain_result, gresult, returned,
                   generation_time, invoked, now>>

\* lines 122-126: the model call returns a text or raises
Invoke(p) ==
    /\ gpc[p] = "L123"
    /\ invoked' = invoked \cup {p}
    /\ \E out \in ChainOutputs \cup {ChainError} :
          chain_result' = [chain_result EXCEPT ![p] = out]
    /\ gpc' = [gpc EXCEPT ![p] = "L128"]
    /\ UNCHANGED oneVars
    /\ UNCHANGED <<description, start_time, end_time, gresult, returned,
                   generation_time, now>>

\* lines 127-130: the finally block writes the shared field, then the
\* exception of the model call, if any, goes on to the caller
Finally(p) ==
    /\ gpc[p] = "L128"
    /\ end_time' = [end_time EXCEPT ![p] = now]
    /\ generation_time' = now - start_time[p]
    /\ gpc' = [gpc EXCEPT ![p] =
                  IF chain_result[p] = ChainError THEN "ChainError" ELSE "L133"]
    /\ UNCHANGED oneVars
    /\ UNCHANGED <<description, start_time, chain_result, gresult, returned,
                   invoked, now>>

\* lines 133-168: the pipeline, on the call's own locals
Sanitize(p) ==
    /\ gpc[p] = "L133"
    /\ \E r \in Sanitized(chain_result[p]) :
          /\ gresult' = [gresult EXCEPT ![p] = r]
          /\ gpc' = [gpc EXCEPT ![p] = IF r = Raised THEN "OracleError" ELSE "L171"]
    /\ UNCHANGED oneVars
    /\ UNCHANGED <<description, start_time, end_time, chain_result, returned,
                   generation_time, invoked, now>>

\* line 171: return result, self.generation_time
Return(p) ==
    /\ gpc[p] = "L171"
    /\ returned' = [returned EXCEPT ![p] =
                       [code |-> gresult[p], time |-> generation_time]]
    /\ gpc' = [gpc EXCEPT ![p] = "done"]
    /\ UNCHANGED oneVars
    /\ UNCHANGED <<description, start_time, end_time, chain_result, gresult,
                   generation_time, invoked, now>>

\* time passes
Tick ==
    /\ now < MaxTime
    /\ now' = now + 1
    /\ UNCHANGED oneVars
    /\ UNCHANGED <<gpc, description, start_time, end_time, chain_result, gresult,
                   returned, generation_time, invoked>>

CallsIdle ==
    /\ gpc = <<>>
    /\ description = <<>>
    /\ start_time = <<>>
    /\ end_time = <<>>
    /\ chain_result = <<>>
    /\ gresult = <<>>
    /\ returned = <<>>
    /\ generation_time = -1
    /\ invoked = {}
    /\ now = 0

\* ------------------------- specification: _strip_trailing_prose called alone
ScanLineSet == {<<"def ", "x">>, <<"x">>, <<" ", "x">>, <<>>}

\* generate's variables while no generate call is running
GenIdle ==
    /\ raw = None
    /\ result = None
    /\ flines = <<>>
    /\ idx = 0
    /\ in_docstring = FALSE
    /\ cleaned_lines = <<>>

\* the scanner's variables before _strip_trailing_prose is called
ScanIdle ==
    /\ code = None
    /\ slines = <<>>
    /\ start_idx = 0
    /\ i = 0
    /\ best_code = None
    /\ accepted = {}
    /\ ret_prose = None

InitScan ==
    /\ GenIdle
    /\ CallsIdle
    /\ code \in Texts(ScanLineSet, MaxCodeLines)
    /\ parses \in [text : {code}, ok : BOOLEAN]
    /\ slines = <<>>
    /\ start_idx = 0
    /\ i = 0
    /\ best_code = None
    /\ accepted = {}
    /\ ret_prose = None
    /\ pc = "S14"

NextScan == ScanBegin \/ ScanIterate \/ ScanReturn

SpecScan == InitScan /\ [][NextScan]_vars

\* --------------------------- specification: the comment filter of generate
FilterLineSet ==
    {<<"def ", "x">>, <<" ", "x">>, <<" ", "#", "x">>, <<>>,
     <<" ", DocstringDelim>>, <<" ", DocstringDelim, "x", DocstringDelim>>,
     <<" ", "x", DocstringDelim>>}

\* the texts that reach line 148: those the two earlier stages leave as they
\* are, so that a model output equal to the text brings the text there
FilterInputs ==
    {s \in Texts(FilterLineSet, MaxFilterLines) : NarrativeStage(FenceStage(s)) = s}

InitFilter ==
    /\ raw \in FilterInputs
    /\ result = raw
    /\ flines = <<>>
    /\ idx = 0
    /\ in_docstring = FALSE
    /\ cleaned_lines = <<>>
    /\ ScanIdle
    /\ CallsIdle
    /\ parses = [text |-> Strip(raw), ok |-> TRUE]
    /\ pc = "L148"

NextFilter == FilterBegin \/ FilterLine \/ FilterEnd

SpecFilter == InitFilter /\ [][NextFilter]_vars

\* ------------------------------ specification: the pipeline of one generate
RawLineSet ==
    {<<"def ", "x">>, <<" ", "x">>, <<" ", "#", "x">>, <<>>,
     <<"x">>, <<" ", DocstringDelim>>,
     <<" ", DocstringDelim, "x", DocstringDelim>>,
     <<FencePython>>, <<Fence>>}

InitPipe ==
    /\ raw \in Texts(RawLineSet, MaxRawLines)
    /\ result = raw
    /\ flines = <<>>
    /\ idx = 0
    /\ in_docstring = FALSE
    /\ cleaned_lines = <<>>
    /\ ScanIdle
    /\ CallsIdle
    /\ parses \in [text : {Strip(raw)}, ok : BOOLEAN]
    /\ pc = "L133"

NextPipe ==
    \/ StripFences
    \/ StripNarrative
    \/ FilterBegin
    \/ FilterLine
    \/ FilterEnd
    \/ CallScan
    \/ ScanBegin
    \/ ScanIterate
    \/ ScanReturn
    \/ GenReturn

SpecPipe == InitPipe /\ [][NextPipe]_vars

\* --------------- specification: generate calls interleaved on one generator
Descriptions == {<<>>, <<" ", NL>>, <<" ", "x">>}

Init ==
    /\ GenIdle
    /\ ScanIdle
    /\ parses = [text |-> None, ok |-> FALSE]
    /\ pc = "idle"
    /\ gpc = [p \in Calls |-> "L116"]
    /\ description \in [Calls -> Descriptions]
    /\ start_time = [p \in Calls |-> -1]
    /\ end_time = [p \in Calls |-> -1]
    /\ chain_result = [p \in Calls |-> None]
    /\ gresult = [p \in Calls |-> None]
    /\ returned = [p \in Calls |-> NotReturned]
    /\ generation_time = -1
    /\ invoked = {}
    /\ now = 0

Next ==
    \/ \E p \in Calls :
          \/ Validate(p)
          \/ StartClock(p)
          \/ Invoke(p)
          \/ Finally(p)
          \/ Sanitize(p)
          \/ Return(p)
    \/ Tick

Spec == Init /\ [][Next]_vars

\* ====================================================================
\* Claims about generate (checked under Spec)
\* ====================================================================
BlankText(d) == \A j \in 1..Len(d) : d[j] \in Whitespace

\* C4: a call whose description is empty or whitespace-only fails with the
\* ValueError before the model chain is invoked: it never starts the clock,
\* never reaches the chain, cleans nothing and returns nothing
C4_EmptyInput ==
    \A p \in Calls :
        BlankText(description[p]) =>
            /\ gpc[p] \in {"L116", "ValueError"}
            /\ p \notin invoked
            /\ start_time[p] = -1
            /\ end_time[p] = -1
            /\ chain_result[p] = None
            /\ gresult[p] = None
            /\ returned[p] = NotReturned

\* C4 witness: a whitespace-only description has been refused while another
\* call went through to its return
C4_Witness ==
    \E p, q \in Calls :
        /\ description[p] = <<" ", NL>>
        /\ gpc[p] = "ValueError"
        /\ gpc[q] = "done"

\* C6 (as claimed): every call returns the cleaned code of its own model
\* output with the elapsed time of its own model invocation, whatever the
\* interleaving
C6_OwnPair ==
    \A p \in Calls :
        gpc[p] = "done" =>
            /\ returned[p].code \in Sanitized(chain_result[p])
            /\ returned[p].time = end_time[p] - start_time[p]

\* ====================================================================
\* Claims about _strip_trailing_prose (checked under SpecScan)
\* ====================================================================
Max(S) == CHOOSE m \in S : \A n \in S : n <= m

\* the join of lines [s, e] of the scanner's line sequence (0-based, inclusive)
JoinRange(ls, s, e) == Join([k \in 1..(e - s + 1) |-> ls[s + k]])

\* the index of the first code-start line of the argument, -1 when none is
FirstCodeLine ==
    LET ls == SplitLines(code)
        hits == {k \in 1..Len(ls) : IsCodeStart(ls[k])}
    IN  IF hits = {} THEN -1 ELSE (CHOOSE k \in hits : \A h \in hits : k <= h) - 1

C5_ScannerTotal == pc # "raised"

RECURSIVE LexInside(_, _, _)
LexInside(s, inside, incomment) ==
    IF s = <<>> THEN inside
    ELSE IF Head(s) = NL THEN LexInside(Tail(s), inside, FALSE)
    ELSE IF incomment THEN LexInside(Tail(s), inside, TRUE)
    ELSE IF Head(s) = DocstringDelim THEN LexInside(Tail(s), ~inside, FALSE)
    ELSE IF Head(s) = "#" /\ ~inside THEN LexInside(Tail(s), inside, TRUE)
    ELSE LexInside(Tail(s), inside, FALSE)

\* whether line k (1-based) of ls starts inside a documentation block
InsideDocAt(ls, k) ==
    LexInside(Join(SubSeq(ls, 1, k - 1)) \o <<NL>>, FALSE, FALSE)

HasDelim(line) == \E j \in 1..Len(line) : line[j] = DocstringDelim

CommentLine(line) == Strip(line) # <<>> /\ Strip(line)[1] = "#"

\* line k of ls lies strictly between a delimiter line that opens a
\* documentation block and the next delimiter line
InsideOpenBlock(ls, k) ==
    \E o \in 1..(k - 1) :
        /\ HasDelim(ls[o])
        /\ ~InsideDocAt(ls, o)
        /\ InsideDocAt(ls, o + 1)
        /\ \A h \in (o + 1)..k : ~HasDelim(ls[h])

\* the filter loop is about to process line idx + 1 and does so in this step
FilterStepsLine == pc = "L153" /\ idx < Len(flines) /\ idx' = idx + 1

\* C2 (as claimed): the filter retains no comment line that lies outside
\* every documentation block; after a docstring that opens and closes on
\* one line the following lines are outside
C2_NoCommentOutsideDoc ==
    [][(/\ FilterStepsLine
        /\ CommentLine(flines[idx + 1])
        /\ ~InsideDocAt(flines, idx + 1))
       => cleaned_lines' = cleaned_lines]_vars

\* C3 (as claimed): every line strictly between a delimiter line that opens
\* a documentation block and the next delimiter line is emitted unchanged,
\* comment-looking and blank lines included
C3_DocstringPreserved ==
    [][(FilterStepsLine /\ InsideOpenBlock(flines, idx + 1))
       => cleaned_lines' = Append(cleaned_lines, flines[idx + 1])]_vars

\* whether the stripped line starts or ends with the delimiter
TogglingLine(line) ==
    LET t == Strip(line)
    IN  t # <<>> /\ (t[1] = DocstringDelim \/ t[Len(t)] = DocstringDelim)

\* C10: the filter starts Outside; after any prefix of lines its state is
\* Inside iff an odd number of the lines processed start or end with the
\* delimiter (one flip per such line, however many delimiters it holds, and
\* none for any other line); every such line is retained, in order; the
\* loop ends in either state without an error
C10_ToggleParity ==
    /\ pc = "L148" => ~in_docstring
    /\ pc \in {"L153", "L168"} =>
          /\ in_docstring =
                (Cardinality({k \in 1..idx : TogglingLine(flines[k])}) % 2 = 1)
          /\ SelectSeq(cleaned_lines, TogglingLine)
                = SelectSeq(SubSeq(flines, 1, idx), TogglingLine)
    /\ pc = "L168" => idx = Len(flines)

\* C10 witness: the loop has ended Inside (an unterminated block) on a text
\* with a line that holds two delimiters and a line that only ends with one
C10_Witness ==
    /\ pc = "L168"
    /\ in_docstring
    /\ \E k \in 1..Len(flines) :
          Cardinality({j \in 1..Len(flines[k]) : flines[k][j] = DocstringDelim}) = 2
    /\ \E k \in 1..Len(flines) :
          TogglingLine(flines[k]) /\ Strip(flines[k])[1] # DocstringDelim

\* ====================================================================
\* Claims about the pipeline of generate (checked under SpecPipe)
\* ====================================================================
NoCodeStart(s) == \A k \in 1..Len(SplitLines(s)) : ~IsCodeStart(SplitLines(s)[k])

\* the model output with its fence markers deleted
FenceStripped == SelectSeq(Strip(raw), LAMBDA c : c \notin {FencePython, Fence})

\* C7 (as claimed): when the fence-stripped output has no code-start line,
\* the whole text is code from line 0: the narrative strip discards no
\* line, and the scanner is handed the text from its first line
C7_WholeTextKept ==
    NoCodeStart(FenceStripped) =>
        /\ pc = "L148" => result = Strip(FenceStripped)
        /\ pc = "S26" =>
              (start_idx = 0 /\ (Strip(FenceStripped) # <<>> => slines # <<>>))

\* the text of the model output, without the whitespace around it
RawLines == SplitNewline(Strip(raw))

\* the output is fence-free and comment-free, begins at a code-start line
\* and is accepted as a whole by the oracle
CleanText ==
    /\ \A j \in 1..Len(raw) : raw[j] \notin {FencePython, Fence}
    /\ \A k \in 1..Len(RawLines) : ~CommentLine(RawLines[k])
    /\ IsCodeStart(SplitNewline(raw)[1])
    /\ parses.ok

\* no blank line of the text is reached by the filter in state Outside
NoBlankOutside ==
    \A k \in 1..Len(RawLines) :
        Strip(RawLines[k]) = <<>> =>
            Cardinality({h \in 1..(k - 1) : TogglingLine(RawLines[h])}) % 2 = 1

\* C8 (as claimed): a clean text, blank lines included, comes back from the
\* pipeline unchanged, modulo trailing whitespace
C8_Idempotent ==
    (pc = "L171" /\ CleanText) => RStrip(result) = RStrip(raw)

\* C8 (amended): a clean text none of whose blank lines the filter reaches
\* in state Outside comes back unchanged, modulo the whitespace around it
C8_IdempotentNoBlankOutside ==
    (pc = "L171" /\ CleanText /\ NoBlankOutside) => Strip(result) = Strip(raw)

\* C8 witness: a clean text with a docstring, and a blank line after it that
\* the filter reaches Inside, has come back unchanged
C8_Witness ==
    /\ pc = "L171"
    /\ CleanText
    /\ NoBlankOutside
    /\ \E k \in 1..Len(RawLines) : Strip(RawLines[k]) = <<>>
    /\ \E k \in 1..Len(RawLines) : HasDelim(RawLines[k])
    /\ result = Strip(raw)

=============================================================================
